---- MODULE Spec2Model ----
(***************************************************************************)
(* Model of backend/api.py and backend/agent.py.                           *)
(*                                                                         *)
(* Strings the code inspects are sequences of tokens.  A model identifier  *)
(* is a sequence whose first token is its provider prefix, so that         *)
(* startswith("gpt-") looks at the head; the empty string is <<>>.         *)
(* An error text is a sequence over {MarkerText, Space, Backtick, "a"},    *)
(* where                                                                   *)
(* MarkerText stands for the 27 characters "Could not parse LLM output:"   *)
(* (the text starts with the only "C" it has, so occurrences never         *)
(* overlap and token-level search agrees with character-level search).     *)
(*                                                                         *)
(* External collaborators (ChatOpenAI, SQLDatabaseToolkit,                 *)
(* create_sql_agent, AgentExecutor.run, requests.get) are black boxes:     *)
(* constructors succeed, SQLDatabase.from_uri succeeds or raises, run      *)
(* returns text or raises, the catalog fetch has the four outcomes below.  *)
(***************************************************************************)
EXTENDS Integers, Sequences, FiniteSets, TLC

VARIABLES
  phase,        \* "import" while api.py is being imported, "serving", "exited"
  env,          \* process environment: which of the three settings are present
  agent_cache,  \* api.py agent_cache: model name -> agent handle (NoAgent = absent)
  db_instance,  \* agent.py _db_instance: 0 = None, else the id of the SQLDatabase
  dbBuilt,      \* number of SQLDatabase.from_uri constructions that succeeded
  agentBuilt,   \* number of create_sql_agent constructions
  nreq,         \* number of POST /chat requests accepted so far
  threads,      \* worker threads that serve POST /chat
  th,           \* per thread: position and locals of chat / get_agent_for_model
  errText,      \* fallback_handler: str(error)
  extracted,    \* fallback_handler: returned string
  fetch,        \* get_models: outcome of requests.get and of response.json()
  models_list,  \* get_models: returned list
  called        \* which of fallback_handler / get_models has returned ("none" before)

vars == <<phase, env, agent_cache, db_instance, dbBuilt, agentBuilt, nreq,
          threads, th, errText, extracted, fetch, models_list, called>>

gatewayVars == <<phase, env, agent_cache, db_instance, dbBuilt, agentBuilt,
                 nreq, threads, th>>

----------------------------------------------------------------------------
(* Bounds *)

NumThreads == 2
MaxRequests == 2
MaxLen == 7
MaxCatalog == 3

----------------------------------------------------------------------------
(* Model identifiers and requests *)

DefaultModel == <<"mistralai/", "mistral-7b-instruct:free">>

GptModel == <<"gpt-", "4o-mini">>

OtherModel == <<"meta-llama/", "gpt-", "llama-3:free">>

UnknownModel == <<"Unknown Model">>

EmptyString == <<>>

ModelNames == {DefaultModel, GptModel, OtherModel}

\* Every string that can become a key of the agent_cache dict.
CacheKeys == ModelNames \cup {EmptyString, UnknownModel}

\* The model field of the JSON body as the client sent it.
BodyModels ==
  {[kind |-> "omitted", val |-> EmptyString], [kind |-> "null", val |-> EmptyString]}
  \cup {[kind |-> "str", val |-> v] : v \in ModelNames \cup {EmptyString}}

\* QueryRequest: an omitted field takes the declared default; null stays None.
QueryRequest(body) ==
  IF body.kind = "omitted" THEN [kind |-> "str", val |-> DefaultModel] ELSE body

\* Python truthiness of Optional[str]: None and "" are falsy.
Truthy(model) == model.kind = "str" /\ Len(model.val) > 0

\* request.model or other
OrElse(model, other) == IF Truthy(model) THEN model.val ELSE other

startswith_gpt(model_name) == Len(model_name) >= 1 /\ Head(model_name) = "gpt-"

----------------------------------------------------------------------------
(* Handles *)

NoAgent == [id |-> 0, model |-> EmptyString, db |-> 0, handle_parsing_errors |-> "none"]

\* create_sql_agent(..., agent_executor_kwargs={"handle_parsing_errors": True})
HandleParsingErrors == "True"

NewAgent(n, model_name, db) ==
  [id |-> n, model |-> model_name, db |-> db, handle_parsing_errors |-> HandleParsingErrors]

\* "if _db_instance:" in get_db
DbCached(d) == d # 0

InCacheNever(cache, model_name) == FALSE

\* "if model_name in agent_cache:" in get_agent_for_model
InCache(cache, model_name) == cache[model_name] # NoAgent

----------------------------------------------------------------------------
(* Texts *)

MarkerText == "Could not parse LLM output:"

Space == " "

\* The backtick character (written out: the character cannot appear in a string here).
Backtick == "<backtick>"

Alphabet == {MarkerText, Space, Backtick, "a"}

InitFailPrefix == <<"Failed to initialize agent for model ">>

RateLimitDetail == <<"Rate limit exceeded (429). The AI model is busy or you have run out of credits. Please try again in 10-20 seconds.">>

\* What AgentExecutor feeds back to the LLM when handle_parsing_errors is True.
DefaultObservation == <<"Invalid or incomplete response">>

----------------------------------------------------------------------------
(* Thread records *)

NoResp == [status |-> 0, detail |-> EmptyString, response |-> EmptyString,
           model |-> EmptyString]

NoParse == [raised |-> FALSE, text |-> EmptyString]

Fresh(pc0, body, model_name) ==
  [pc |-> pc0, body |-> body, model_name |-> model_name, agent |-> NoAgent,
   db |-> 0, via |-> "none", fail |-> "none", invoked |-> FALSE,
   outcome |-> "none", perr |-> NoParse, obs |-> EmptyString, resp |-> NoResp]

Idle == Fresh("idle", [kind |-> "omitted", val |-> EmptyString], EmptyString)

AllThreads == 0 .. NumThreads

ImportResolvesNothing == FALSE

\* api.py line 49: the module body calls get_agent_for_model for the default model.
ImportResolvesDefault == TRUE

\* The import of api.py runs on the main thread (0); workers serve once it is done.
GatewayInit ==
  /\ phase = IF ImportResolvesDefault THEN "import" ELSE "serving"
  /\ env \in [openrouter : BOOLEAN, openai : BOOLEAN, db_uri : BOOLEAN]
  /\ agent_cache = [m \in CacheKeys |-> NoAgent]
  /\ db_instance = 0
  /\ dbBuilt = 0
  /\ agentBuilt = 0
  /\ nreq = 0
  /\ th = [t \in AllThreads |->
             IF t = 0
             THEN Fresh(IF ImportResolvesDefault THEN "lookup" ELSE "done",
                        [kind |-> "str", val |-> DefaultModel], DefaultModel)
             ELSE Idle]

----------------------------------------------------------------------------
(* fallback_handler *)

\* The substring tested by the "in" operator.
CheckMarker == <<MarkerText>>

MarkerNoBacktick == <<MarkerText, Space>>

\* The separator given to str.split.
Marker == <<MarkerText, Space, Backtick>>

OkPrefix == <<"Output parsed but format incorrect. Please repeat this EXACT answer with the prefix 'Final Answer:': ">>

ErrPrefix == <<"Error: ">>

ErrSuffix == <<". Please check your output format. If you have the answer, output it as 'Final Answer: [your answer]'.">>

\* Index of the first occurrence of sub in s at or after position 1, 0 when absent.
Find(s, sub) ==
  LET hits == {i \in 1 .. (Len(s) - Len(sub) + 1) : SubSeq(s, i, i + Len(sub) - 1) = sub}
  IN IF hits = {} THEN 0 ELSE CHOOSE i \in hits : \A j \in hits : i <= j

\* sub in s
Contains(s, sub) == Find(s, sub) # 0

\* s.split(sep): the pieces between non-overlapping occurrences, left to right.
RECURSIVE Split(_, _)
Split(s, sep) ==
  LET i == Find(s, sep)
  IN IF i = 0 THEN <<s>>
     ELSE <<SubSeq(s, 1, i - 1)>> \o Split(SubSeq(s, i + Len(sep), Len(s)), sep)

\* s.endswith(Backtick)
EndsWithBacktick(s) == Len(s) > 0 /\ s[Len(s)] = Backtick

\* response[:-1] when response ends with a backtick
StripBacktick(s) == IF EndsWithBacktick(s) THEN SubSeq(s, 1, Len(s) - 1) ELSE s

GenericFallback(error_str) == ErrPrefix \o error_str \o ErrSuffix

fallback_handler(error_str) ==
  IF Contains(error_str, CheckMarker)
  THEN LET parts == Split(error_str, Marker)
       IN IF Len(parts) > 1
          THEN OkPrefix \o StripBacktick(parts[2])
          ELSE GenericFallback(error_str)
  ELSE GenericFallback(error_str)

\* AgentExecutor's treatment of an OutputParserException, by handle_parsing_errors.
Observe(handle_parsing_errors, text) ==
  IF handle_parsing_errors = "fallback_handler" THEN fallback_handler(text)
  ELSE DefaultObservation

----------------------------------------------------------------------------
(* get_agent_for_model, create_pagila_agent, get_llm, get_openai_llm, get_db *)

pureIdle ==
  /\ errText = EmptyString
  /\ extracted = EmptyString
  /\ fetch = [kind |-> "none", data |-> <<>>]
  /\ models_list = <<>>
  /\ called = "none"

pureVars == <<errText, extracted, fetch, models_list, called>>

Alive == phase # "exited"

\* raise HTTPException(status_code=500, detail=f"Failed to initialize agent for model ...")
InitFailResp(model_name) ==
  [status |-> 500, detail |-> InitFailPrefix \o model_name,
   response |-> EmptyString, model |-> EmptyString]

\* get_agent_for_model returns agent (NoAgent for None) to its caller: the module
\* body (thread 0, which then finishes the import) or chat ("if not agent").
Returned(r, t, agent, via, fail) ==
  IF t = 0
  THEN [r EXCEPT !.pc = "done", !.agent = agent, !.via = via, !.fail = fail]
  ELSE IF agent = NoAgent
       THEN [r EXCEPT !.pc = "idle", !.agent = agent, !.via = via, !.fail = fail,
                      !.resp = InitFailResp(r.model_name)]
       ELSE [r EXCEPT !.pc = "run", !.agent = agent, !.via = via, !.fail = fail]

PhaseAfterReturn(t) == IF t = 0 THEN "serving" ELSE phase

\* sys.exit(1): SystemExit is not an Exception, so "except Exception" in
\* get_agent_for_model does not catch it and the process terminates.
SysExit(t, fail) ==
  /\ phase' = "exited"
  /\ th' = [th EXCEPT ![t].pc = "exit", ![t].via = "failed", ![t].fail = fail]

\* api.py 36-37
Lookup(t) ==
  /\ Alive
  /\ th[t].pc = "lookup"
  /\ IF InCache(agent_cache, th[t].model_name)
     THEN /\ th' = [th EXCEPT ![t] =
                      Returned(th[t], t, agent_cache[th[t].model_name], "cache", "none")]
          /\ phase' = PhaseAfterReturn(t)
     ELSE /\ th' = [th EXCEPT ![t].pc = "llm"]
          /\ UNCHANGED phase
  /\ UNCHANGED <<env, agent_cache, db_instance, dbBuilt, agentBuilt, nreq, threads, pureVars>>

\* agent.py 100-105 with get_openai_llm (30-42) and get_llm (16-28)
MakeLLM(t) ==
  /\ Alive
  /\ th[t].pc = "llm"
  /\ IF startswith_gpt(th[t].model_name)
     THEN IF env.openai
          THEN /\ th' = [th EXCEPT ![t].pc = "getdb"]
               /\ UNCHANGED phase
          ELSE \* ValueError, caught at api.py 44-46: return None
               /\ th' = [th EXCEPT ![t] = Returned(th[t], t, NoAgent, "failed", "credential")]
               /\ phase' = PhaseAfterReturn(t)
     ELSE IF env.openrouter
          THEN /\ th' = [th EXCEPT ![t].pc = "getdb"]
               /\ UNCHANGED phase
          ELSE SysExit(t, "credential")
  /\ UNCHANGED <<env, agent_cache, db_instance, dbBuilt, agentBuilt, nreq, threads, pureVars>>

\* agent.py 50-57
GetDb(t) ==
  /\ Alive
  /\ th[t].pc = "getdb"
  /\ IF DbCached(db_instance)
     THEN /\ th' = [th EXCEPT ![t].pc = "build", ![t].db = db_instance]
          /\ UNCHANGED phase
     ELSE IF env.db_uri
          THEN /\ th' = [th EXCEPT ![t].pc = "connect"]
               /\ UNCHANGED phase
          ELSE SysExit(t, "db_uri")
  /\ UNCHANGED <<env, agent_cache, db_instance, dbBuilt, agentBuilt, nreq, threads, pureVars>>

\* agent.py 60-69: SQLDatabase.from_uri succeeds (reachable) or raises
Connect(t) ==
  /\ Alive
  /\ th[t].pc = "connect"
  /\ \E reachable \in BOOLEAN :
       IF reachable
       THEN /\ dbBuilt' = dbBuilt + 1
            /\ db_instance' = dbBuilt + 1
            /\ th' = [th EXCEPT ![t].pc = "build", ![t].db = dbBuilt + 1]
            /\ UNCHANGED phase
       ELSE /\ SysExit(t, "db_connect")
            /\ UNCHANGED <<dbBuilt, db_instance>>
  /\ UNCHANGED <<env, agent_cache, agentBuilt, nreq, threads, pureVars>>

\* agent.py 108-145, then api.py 42-43
Build(t) ==
  /\ Alive
  /\ th[t].pc = "build"
  /\ LET agent == NewAgent(agentBuilt + 1, th[t].model_name, th[t].db)
     IN /\ agentBuilt' = agentBuilt + 1
        /\ agent_cache' = [agent_cache EXCEPT ![th[t].model_name] = agent]
        /\ th' = [th EXCEPT ![t] = Returned(th[t], t, agent, "built", "none")]
        /\ phase' = PhaseAfterReturn(t)
  /\ UNCHANGED <<env, db_instance, dbBuilt, nreq, threads, pureVars>>

----------------------------------------------------------------------------
(* POST /chat *)

ResolvedNameUnknown(body) == OrElse(QueryRequest(body), UnknownModel)

\* api.py 91: request.model or the default
ResolvedName(body) == OrElse(QueryRequest(body), DefaultModel)

\* api.py 106: request.model or "Unknown Model"
MetadataModel(body) == OrElse(QueryRequest(body), UnknownModel)

\* api.py 90-92: a worker thread takes a request and enters get_agent_for_model
ChatBegin(t) ==
  /\ phase = "serving"
  /\ t \in threads
  /\ th[t].pc = "idle"
  /\ nreq < MaxRequests
  /\ \E body \in BodyModels :
       th' = [th EXCEPT ![t] = Fresh("lookup", body, ResolvedName(body))]
  /\ nreq' = nreq + 1
  /\ UNCHANGED <<phase, env, agent_cache, db_instance, dbBuilt, agentBuilt, threads, pureVars>>

\* str(e) of an OutputParserException raised inside the agent loop
ParseErrors ==
  {NoParse,
   [raised |-> TRUE, text |-> Marker \o <<"a", Backtick>>],
   [raised |-> TRUE, text |-> <<"a">>]}

\* How agent.run ends: a string, openai.RateLimitError, or another Exception
RunResults == {"ok", "ratelimit", "error"}

AnswerText == <<"answer">>

ExceptionText == <<"boom">>

ChatRespNo429(body, result) ==
  IF result = "ok"
  THEN [status |-> 200, detail |-> EmptyString, response |-> AnswerText,
        model |-> MetadataModel(body)]
  ELSE [status |-> 500, detail |-> ExceptionText, response |-> EmptyString,
        model |-> EmptyString]

\* api.py 108-130
ChatResp(body, result) ==
  IF result = "ok"
  THEN [status |-> 200, detail |-> EmptyString, response |-> AnswerText,
        model |-> MetadataModel(body)]
  ELSE IF result = "ratelimit"
       THEN [status |-> 429, detail |-> RateLimitDetail, response |-> EmptyString,
             model |-> EmptyString]
       ELSE [status |-> 500, detail |-> ExceptionText, response |-> EmptyString,
             model |-> EmptyString]

\* api.py 97-130: agent.run(request.query) and the mapping of its outcome
Run(t) ==
  /\ Alive
  /\ th[t].pc = "run"
  /\ \E perr \in ParseErrors, result \in RunResults :
       th' = [th EXCEPT ![t].pc = "idle", ![t].invoked = TRUE, ![t].outcome = result,
                        ![t].perr = perr,
                        ![t].obs = IF perr.raised
                                   THEN Observe(th[t].agent.handle_parsing_errors, perr.text)
                                   ELSE EmptyString,
                        ![t].resp = ChatResp(th[t].body, result)]
  /\ UNCHANGED <<phase, env, agent_cache, db_instance, dbBuilt, agentBuilt, nreq, threads, pureVars>>

Init ==
  /\ GatewayInit
  /\ threads = 1 .. NumThreads
  /\ pureIdle

\* One worker: requests are served one after the other.
InitSeq ==
  /\ GatewayInit
  /\ threads = {1}
  /\ pureIdle

Next ==
  \/ \E t \in AllThreads : Lookup(t)
  \/ \E t \in AllThreads : MakeLLM(t)
  \/ \E t \in AllThreads : GetDb(t)
  \/ \E t \in AllThreads : Connect(t)
  \/ \E t \in AllThreads : Build(t)
  \/ \E t \in AllThreads : ChatBegin(t)
  \/ \E t \in AllThreads : Run(t)

Spec == Init /\ [][Next]_vars

SpecSeq == InitSeq /\ [][Next]_vars

----------------------------------------------------------------------------
(* fallback_handler as an operation: every error text up to MaxLen tokens *)

RECURSIVE SeqsUpTo(_, _)
SeqsUpTo(S, n) ==
  IF n = 0 THEN {<<>>}
  ELSE LET shorter == SeqsUpTo(S, n - 1)
       IN shorter \cup {Append(s, x) : s \in {q \in shorter : Len(q) = n - 1}, x \in S}

\* The gateway at rest, with a complete environment.
GatewayIdle ==
  /\ GatewayInit
  /\ env = [openrouter |-> TRUE, openai |-> TRUE, db_uri |-> TRUE]
  /\ threads = 1 .. NumThreads

InitExtract ==
  /\ GatewayIdle
  /\ errText \in SeqsUpTo(Alphabet, MaxLen)
  /\ extracted = EmptyString
  /\ fetch = [kind |-> "none", data |-> <<>>]
  /\ models_list = <<>>
  /\ called = "none"

CallFallbackHandler ==
  /\ called = "none"
  /\ extracted' = fallback_handler(errText)
  /\ called' = "fallback_handler"
  /\ UNCHANGED <<gatewayVars, errText, fetch, models_list>>

SpecExtract == InitExtract /\ [][CallFallbackHandler]_vars

----------------------------------------------------------------------------
(* GET /models *)

\* api.py 61-65
openai_models ==
  <<[id |-> "gpt-4o-mini", name |-> "OpenAI GPT-4o Mini"],
    [id |-> "gpt-3.5-turbo", name |-> "OpenAI GPT-3.5 Turbo"],
    [id |-> "gpt-4o", name |-> "OpenAI GPT-4o"]>>

\* A catalog entry.  name: -1 is JSON null, 0 is an absent key (sorted as ""),
\* 1 is a non-empty string ("" sorts before it).  pricing: "absent" (no key),
\* "null" (JSON null) or "dict" with the two price strings.
NameNull == -1

Names == {NameNull, 0, 1}

Prices == {"0", "0.5"}

CatalogEntries ==
  [name : Names, pricing : {"dict"}, prompt : Prices, completion : Prices]
  \cup [name : Names, pricing : {"absent", "null"}, prompt : {"-"}, completion : {"-"}]

\* model.get("pricing", {}).get(...) raises AttributeError on None
FilterRaises(entry) == entry.pricing = "null"

IsFreePromptOnly(entry) == entry.pricing = "dict" /\ entry.prompt = "0"

\* api.py 76-77
IsFree(entry) == entry.pricing = "dict" /\ entry.prompt = "0" /\ entry.completion = "0"

\* api.py 74-78: the list comprehension keeps the catalog's order
free_models(data) == SelectSeq(data, IsFree)

\* list.sort(key=name) compares str with None and raises TypeError as soon as
\* two elements are compared and one of the names is None.
SortRaises(list) == Len(list) >= 2 /\ \E i \in 1 .. Len(list) : list[i].name = NameNull

\* Stable insertion of x into an ascending list, after the elements not greater.
RECURSIVE Insert(_, _)
Insert(sorted, x) ==
  IF sorted = <<>> THEN <<x>>
  ELSE IF Head(sorted).name <= x.name
       THEN <<Head(sorted)>> \o Insert(Tail(sorted), x)
       ELSE <<x>> \o sorted

\* api.py 80: stable ascending sort by name
RECURSIVE SortByName(_)
SortByName(list) ==
  IF list = <<>> THEN <<>>
  ELSE Insert(SortByName(SubSeq(list, 1, Len(list) - 1)), list[Len(list)])

FetchKinds == {"connection_error", "status_not_200", "malformed_body", "ok"}

Fetches ==
  {[kind |-> k, data |-> <<>>] : k \in FetchKinds \ {"ok"}}
  \cup {[kind |-> "ok", data |-> d] : d \in SeqsUpTo(CatalogEntries, MaxCatalog)}

\* Whether the try block of get_models is left by an exception.
FetchRaises(f) ==
  \/ f.kind \in {"connection_error", "malformed_body"}
  \/ /\ f.kind = "ok"
     /\ \/ \E i \in 1 .. Len(f.data) : FilterRaises(f.data[i])
        \/ SortRaises(free_models(f.data))

\* api.py 56-87
get_models(f) ==
  IF f.kind = "ok" /\ ~FetchRaises(f)
  THEN openai_models \o SortByName(free_models(f.data))
  ELSE openai_models

InitModels ==
  /\ GatewayIdle
  /\ errText = EmptyString
  /\ extracted = EmptyString
  /\ fetch \in Fetches
  /\ models_list = <<>>
  /\ called = "none"

CallGetModels ==
  /\ called = "none"
  /\ models_list' = get_models(fetch)
  /\ called' = "get_models"
  /\ UNCHANGED <<gatewayVars, errText, extracted, fetch>>

SpecModels == InitModels /\ [][CallGetModels]_vars

----------------------------------------------------------------------------
(* Properties *)

Workers == 1 .. NumThreads

\* A worker that holds a request or the response to its last one.
Active(t) == th[t].pc # "idle" \/ th[t].resp.status # 0

Cached == {m \in CacheKeys : InCache(agent_cache, m)}

\* C1: with requests served one after the other, an entry of the agent cache
\* never changes once it is set, a resolve call that finds the entry returns that
\* very handle and constructs neither an agent nor a database handle, and the
\* number of database handles constructed is 1 while the service runs, whatever
\* the number of models resolved.
C1_ResolveIdempotent ==
  [][/\ \A m \in CacheKeys :
          agent_cache[m] # NoAgent => agent_cache'[m] = agent_cache[m]
     /\ \A t \in AllThreads :
          (/\ th[t].pc = "lookup"
           /\ th'[t].pc # "lookup"
           /\ agent_cache[th[t].model_name] # NoAgent)
          => /\ th'[t].agent = agent_cache[th[t].model_name]
             /\ agentBuilt' = agentBuilt
             /\ dbBuilt' = dbBuilt
     /\ dbBuilt' <= 1
     /\ phase' = "serving" => dbBuilt' = 1]_vars

\* C1 witness: after the import built the default agent, one request built a
\* second agent and the next request for that model got it back from the cache.
C1_Witness ==
  /\ phase = "serving"
  /\ th[1].via = "cache"
  /\ th[1].model_name # DefaultModel
  /\ th[1].agent = agent_cache[th[1].model_name]
  /\ agentBuilt = 2
  /\ dbBuilt = 1

\* C2 (as claimed): whenever a resolve fails on a missing credential, a missing
\* database URI or an unreachable database, the process keeps running and the
\* cache holds no entry for that model.
C2_FailedResolveLeavesProcessRunning ==
  \A t \in AllThreads :
    th[t].fail \in {"credential", "db_uri", "db_connect"}
    => /\ phase # "exited"
       /\ agent_cache[th[t].model_name] = NoAgent

\* C3: while the service runs, worker threads interleaved, exactly one database
\* handle has been constructed and every agent handle, cached or held by a
\* thread, was built on it.
C3_OneDatabaseHandle ==
  phase = "serving"
  => /\ dbBuilt = 1
     /\ db_instance = 1
     /\ \A m \in Cached : agent_cache[m].db = db_instance
     /\ \A t \in AllThreads : th[t].agent # NoAgent => th[t].agent.db = db_instance

\* C3 witness: two workers raced on the same uncached model, each built an agent
\* for it, and there is still one database handle.
C3_Witness ==
  /\ phase = "serving"
  /\ th[1].via = "built"
  /\ th[2].via = "built"
  /\ th[1].model_name = th[2].model_name
  /\ th[1].agent # th[2].agent
  /\ agentBuilt = 3
  /\ dbBuilt = 1

\* The marker as the specification writes it: the text, a space, a backtick.
BacktickMarker == <<MarkerText, Space, Backtick>>

\* Everything after the first occurrence of the marker.
FirstRemainder(s) ==
  SubSeq(s, Find(s, BacktickMarker) + Len(BacktickMarker), Len(s))

\* C4 (as claimed): for every error text that contains the marker, once or more,
\* fallback_handler returns the fixed prefix followed by all the text after the
\* first occurrence of the marker, less one trailing backtick.
C4_ReturnsFirstRemainder ==
  (called = "fallback_handler" /\ Contains(errText, BacktickMarker))
  => extracted = OkPrefix \o StripBacktick(FirstRemainder(errText))

\* C5: for every error text that does not contain the marker with its backtick,
\* fallback_handler returns the generic fallback around the unchanged text.
C5_GenericFallbackWithoutMarker ==
  (called = "fallback_handler" /\ ~Contains(errText, BacktickMarker))
  => extracted = ErrPrefix \o errText \o ErrSuffix

\* C5 witness: the marker text without its opening backtick.
C5_Witness ==
  /\ called = "fallback_handler"
  /\ errText = <<"a", MarkerText, Space, "a", Backtick>>
  /\ extracted = ErrPrefix \o errText \o ErrSuffix

\* C6: a chat request that fails ends in exactly one of: 500 naming the model
\* when no agent handle was produced, the agent never invoked; 429 with the fixed
\* advisory text when the invocation raised a rate-limit error; 500 with the
\* text of the exception when it raised anything else.
C6_FailureOutcomes ==
  \A t \in Workers :
    (th[t].resp.status # 0 /\ th[t].resp.status # 200)
    => \/ /\ th[t].agent = NoAgent
          /\ ~th[t].invoked
          /\ th[t].resp.status = 500
          /\ th[t].resp.detail = InitFailPrefix \o th[t].model_name
       \/ /\ th[t].agent # NoAgent
          /\ th[t].invoked
          /\ th[t].outcome = "ratelimit"
          /\ th[t].resp.status = 429
          /\ th[t].resp.detail = RateLimitDetail
       \/ /\ th[t].agent # NoAgent
          /\ th[t].invoked
          /\ th[t].outcome = "error"
          /\ th[t].resp.status = 500
          /\ th[t].resp.detail = ExceptionText

\* C6 witness: one worker answered 429 and the other 500 for a model without agent.
C6_Witness ==
  /\ th[1].outcome = "ratelimit"
  /\ th[1].resp.status = 429
  /\ th[2].agent = NoAgent
  /\ th[2].resp.status = 500
  /\ th[2].resp.detail = InitFailPrefix \o GptModel

\* The default model identifier as documented.
DocumentedDefault == <<"mistralai/", "mistral-7b-instruct:free">>

ModelOmittedOrEmpty(body) ==
  body.kind \in {"omitted", "null"} \/ body.val = EmptyString

\* C7: a chat request whose model field is omitted, null or empty resolves the
\* documented default model, and what it invokes is the cached handle of that model.
C7_DefaultModelUsed ==
  \A t \in Workers :
    (Active(t) /\ ModelOmittedOrEmpty(th[t].body))
    => /\ th[t].model_name = DocumentedDefault
       /\ th[t].pc = "run" \/ th[t].resp.status # 0
          => /\ th[t].agent # NoAgent
             /\ th[t].agent = agent_cache[DocumentedDefault]
             /\ th[t].agent.model = DocumentedDefault
       /\ th[t].resp.status # 0 => th[t].invoked

\* C7 witness: an answered request with an omitted model and one with an empty model.
C7_Witness ==
  /\ th[1].body.kind = "omitted"
  /\ th[1].resp.status = 200
  /\ th[2].body = [kind |-> "str", val |-> EmptyString]
  /\ th[2].resp.status = 200
  /\ th[2].agent.model = DocumentedDefault

\* Number of positions of list that hold entry e.
Count(list, e) == Cardinality({i \in 1 .. Len(list) : list[i] = e})

\* The two prices of an entry both equal "0".
BothPricesZero(e) == e.pricing = "dict" /\ e.prompt = "0" /\ e.completion = "0"

\* The fetch failed: no connection, a status other than 200, a body that is not
\* the expected JSON, or an entry whose pricing or name is null where it is used.
FetchFailed(f) ==
  \/ f.kind # "ok"
  \/ \E i \in 1 .. Len(f.data) : f.data[i].pricing = "null"
  \/ LET free == {i \in 1 .. Len(f.data) : BothPricesZero(f.data[i])}
     IN Cardinality(free) >= 2 /\ \E i \in free : f.data[i].name = NameNull

\* C8: get_models returns for every outcome of the fetch; the list starts with
\* the three fixed entries in their order; when the fetch failed it is exactly
\* those; otherwise they are followed by the catalog's entries whose two prices
\* are "0", each as often as the catalog has it, in ascending order of name.
C8_ModelsList ==
  called = "get_models"
  => /\ Len(models_list) >= 3
     /\ SubSeq(models_list, 1, 3) =
          <<[id |-> "gpt-4o-mini", name |-> "OpenAI GPT-4o Mini"],
            [id |-> "gpt-3.5-turbo", name |-> "OpenAI GPT-3.5 Turbo"],
            [id |-> "gpt-4o", name |-> "OpenAI GPT-4o"]>>
     /\ FetchFailed(fetch) => Len(models_list) = 3
     /\ ~FetchFailed(fetch)
        => LET rest == SubSeq(models_list, 4, Len(models_list))
           IN /\ \A i \in 1 .. Len(rest) : BothPricesZero(rest[i])
              /\ \A e \in CatalogEntries :
                   BothPricesZero(e) => Count(rest, e) = Count(fetch.data, e)
              /\ \A i \in 1 .. Len(rest) - 1 : rest[i].name <= rest[i + 1].name

\* C8 witness: a catalog of three entries, two of them free and out of order.
C8_Witness ==
  /\ called = "get_models"
  /\ fetch.kind = "ok"
  /\ Len(fetch.data) = 3
  /\ Len(models_list) = 5
  /\ fetch.data[1].name = 1
  /\ BothPricesZero(fetch.data[1])
  /\ fetch.data[2].prompt = "0"
  /\ fetch.data[2].completion = "0.5"
  /\ fetch.data[3].name = 0
  /\ models_list[4] = fetch.data[3]
  /\ models_list[5] = fetch.data[1]

\* C9 (as claimed): whenever the agent's parsing step raised a parse failure
\* during an invocation, what was fed back is fallback_handler of the error text.
C9_SanitizerApplied ==
  \A t \in Workers :
    th[t].perr.raised => th[t].obs = fallback_handler(th[t].perr.text)

\* C10 (as claimed): the model named in the metadata of a successful response is
\* the model whose agent handle was resolved and invoked.
C10_MetadataNamesInvokedModel ==
  \A t \in Workers :
    th[t].resp.status = 200
    => /\ th[t].resp.model = th[t].model_name
       /\ th[t].resp.model = th[t].agent.model

====
